---- MODULE Spec2Model ----
(***************************************************************************)
(* factory/alchemy.py: SQLAlchemyOptions and SQLAlchemyModelFactory.       *)
(*                                                                         *)
(* One factory class is declared with its Meta options; generations of     *)
(* that class (create strategy) run against one session.  Every statement  *)
(* of _generate, _create and _get_or_create that touches the session or    *)
(* the class attribute _original_params is one step of a generation.       *)
(* The session and the generic factory engine are collaborators of the     *)
(* module: the session is modelled by what the module's calls rely on      *)
(* (query/add/flush/commit/rollback over a table with unique constraints), *)
(* the engine by the resolved kwargs it hands to _create.                  *)
(***************************************************************************)
EXTENDS Integers, Sequences, FiniteSets, TLC

\* ------------------------------------------------------------------ bounds
\* Field values are 1..MaxVal; NULL (attribute never set) is 0.
MaxVal == 2
\* Number of generations started in one behaviour.
MaxCalls == 3

\* ------------------------------------------------------------- vocabulary
Fields == {"a", "b"}
Values == 1..MaxVal
NULL == 0
Gens == {1, 2}
\* every generation constructs at most two instances (the default object
\* of _create and the one of _get_or_create)
MaxInst == 2 * MaxCalls
Ids == 1..MaxInst
NoObj == 0

SESSION_PERSISTENCE_COMMIT == "commit"
SESSION_PERSISTENCE_FLUSH == "flush"
\* Python's None, as the value of an option
None == "None"
VALID_SESSION_PERSISTENCE_TYPES == {None, SESSION_PERSISTENCE_COMMIT, SESSION_PERSISTENCE_FLUSH}

\* option values a Meta declaration may carry
PersistenceChoices == VALID_SESSION_PERSISTENCE_TYPES \cup {"savepoint"}
GetOrCreateChoices == {<<>>, <<"a">>, <<"a", "b">>}
SessionChoices == {None, "session"}
\* unique constraints of the mapped table: each a set of columns
UniqueChoices == {{}, {{"a"}}, {{"a", "b"}}}

\* keyword mappings: functions from a set of field names to values
Mappings == UNION {[D -> Values] : D \in SUBSET Fields}
EmptyMap == [f \in {} |-> NULL]
Restrict(m, D) == [f \in DOMAIN m \cap D |-> m[f]]
Range(s) == {s[i] : i \in DOMAIN s}

VARIABLES
    meta,             \* cls._meta: the three options of SQLAlchemyOptions
    declared,         \* "no" | "ok" | "TypeError": outcome of the class declaration
    unique,           \* the table's unique constraints
    original_params,  \* cls._original_params
    inst,             \* model instances: attribute values and session state
    pc,               \* position of each generation
    frame,            \* locals of each generation
    ops,              \* session calls issued by each generation's create, in order
    stack,            \* generations in progress, innermost last
    calls,            \* generations started so far
    threads,          \* TRUE: generations run in threads; FALSE: one thread, nesting only
    write_errors      \* TRUE: the database may reject the write of a flush or commit

vars == <<meta, declared, unique, original_params, inst, pc, frame, ops, stack, calls, threads, write_errors>>

\* ---------------------------------------------------------------- session
Tracked == {"pending", "persistent", "committed"}
FreeInst == [vals |-> [f \in Fields |-> NULL], st |-> "free"]

\* obj in session
InSession(table, i) == i # NoObj /\ table[i].st \in Tracked

\* rows a query sees (a query autoflushes pending instances first)
Rows(table) == {i \in Ids : table[i].st \in Tracked}

\* filter_by(**by): the rows whose columns equal the given values
Matching(table, by) ==
    {i \in Rows(table) : \A f \in DOMAIN by : table[i].vals[f] = by[f]}

\* model_class(**kw): attributes not passed stay unset
Construct(kw) == [f \in Fields |-> IF f \in DOMAIN kw THEN kw[f] ELSE NULL]

\* an insert of vals violates a unique constraint of the table
\* (NULLs never collide)
Conflicts(table, uniq, vals) ==
    \E i \in Rows(table) : \E U \in uniq :
        \A f \in U : vals[f] # NULL /\ vals[f] = table[i].vals[f]

FreeIds(table) == {i \in Ids : table[i].st = "free"}
NewId(table) == CHOOSE i \in FreeIds(table) : \A j \in FreeIds(table) : i <= j

\* session.flush(): pending instances are written
Flush(table) ==
    [i \in Ids |-> IF table[i].st = "pending"
                   THEN [table[i] EXCEPT !.st = "persistent"] ELSE table[i]]

\* session.commit(): everything written so far becomes durable
Commit(table) ==
    [i \in Ids |-> IF table[i].st \in {"pending", "persistent"}
                   THEN [table[i] EXCEPT !.st = "committed"] ELSE table[i]]

\* session.rollback(): instances added since the last commit leave the session
Rollback(table) ==
    [i \in Ids |-> IF table[i].st \in {"pending", "persistent"}
                   THEN [table[i] EXCEPT !.st = "expunged"] ELSE table[i]]

\* one entry of a generation's log of session calls
Op(name, by, o, withArgs) == [op |-> name, by |-> by, obj |-> o, args |-> withArgs]
QueryOp(by, withArgs) == Op("query", by, NoObj, withArgs)
AddOp(o) == Op("add", EmptyMap, o, FALSE)
PlainOp(name) == Op(name, EmptyMap, NoObj, FALSE)

\* ----------------------------------------------------------------- locals
NoExc == [type |-> "none", at |-> "none", field |-> "none"]
Exc(type, at, field) == [type |-> type, at |-> at, field |-> field]

IdleFrame ==
    [params |-> EmptyMap, kwargs |-> EmptyMap, key_fields |-> EmptyMap,
     default |-> NoObj, instance |-> NoObj, obj |-> NoObj,
     e |-> NoExc, get_or_create_params |-> EmptyMap, exc |-> NoExc]

Terminal == {"done", "raised", "aborted"}

\* instances no generation in progress refers to and the session does not
\* hold are garbage
Referenced(g) == {frame[g].default, frame[g].instance, frame[g].obj}
Collect(table, keep) ==
    [i \in Ids |-> IF table[i].st \in {"transient", "expunged"} /\ i \notin keep
                   THEN FreeInst ELSE table[i]]


\* ------------------------------------------------------------- scheduling
Top == stack[Len(stack)]
\* g may take a step of its own call
Turn(g) == IF threads THEN TRUE ELSE IF stack = <<>> THEN FALSE ELSE Top = g
\* a new generation may start: at any time in a thread of its own; in one
\* thread only when nothing runs, or nested in the attribute resolution of
\* the running generation (a sub-factory)
MayStart == IF threads \/ stack = <<>> THEN TRUE ELSE pc[Top] = "resolving"
Without(s, g) == SelectSeq(s, LAMBDA x : x # g)

\* generations a behaviour starts: MaxCalls in one thread; with threads, one
\* generation in each
CallBound == IF threads THEN Cardinality(Gens) ELSE MaxCalls

\* ------------------------------------------------------------ declaration
\* faulty variant: the checker accepting whatever it is given
check_anything_goes(value) == "ok"
\* SQLAlchemyOptions._check_sqlalchemy_session_persistence
check_sqlalchemy_session_persistence(value) ==
    IF value \notin VALID_SESSION_PERSISTENCE_TYPES THEN "TypeError" ELSE "ok"

\* the factory class statement: the option checkers run
DeclareFactory ==
    /\ declared = "no"
    /\ declared' = check_sqlalchemy_session_persistence(meta.sqlalchemy_session_persistence)
    /\ UNCHANGED <<meta, unique, original_params, inst, pc, frame, ops, stack, calls, threads, write_errors>>

\* ------------------------------------------------------------- generation
\* SQLAlchemyModelFactory._generate: store the raw params on the class,
\* then hand over to the engine
Generate(g) ==
    /\ declared = "ok"
    /\ pc[g] = "idle"
    /\ MayStart
    /\ calls < CallBound
    /\ \E p \in Mappings :
        /\ original_params' = p
        /\ frame' = [frame EXCEPT ![g] = [IdleFrame EXCEPT !.params = p]]
    /\ pc' = [pc EXCEPT ![g] = "resolving"]
    /\ ops' = [ops EXCEPT ![g] = <<>>]
    /\ stack' = Append(stack, g)
    /\ calls' = calls + 1
    /\ UNCHANGED <<meta, declared, unique, inst, threads, write_errors>>

\* the resolved kwargs the engine may hand to _create for the raw params p:
\* the caller's values, plus values of declarations of the factory
Resolutions(p) == {k \in Mappings : \A f \in DOMAIN p : f \in DOMAIN k /\ k[f] = p[f]}

\* ------------------------------------------------------------ _get_or_create
\* faulty variant: the presence check of lines 61-65 left out
MissingFieldsUnchecked(goc, kw) == {}
\* lines 59-66: the first field of sqlalchemy_get_or_create missing in kwargs
MissingFields(goc, kw) == {i \in DOMAIN goc : goc[i] \notin DOMAIN kw}
FirstMissing(goc, kw) ==
    goc[CHOOSE i \in MissingFields(goc, kw) : \A j \in MissingFields(goc, kw) : i <= j]
\* faulty variant: the loop of lines 60-66 collecting the first field only
KeyFieldsFirstOnly(goc, kw) == Restrict(kw, {goc[1]})
\* key_fields[field] = kwargs.pop(field)
KeyFields(goc, kw) == Restrict(kw, Range(goc))

\* what a query's terminal call yields: an instance, NoObj for None, or one
\* of the two lookup errors
MultipleResultsFound == 0 - 1
NoResultFound == 0 - 2
\* faulty variant: the result of the first lookup dropped: always create
one_or_none_dropped(found) == NoObj
\* Query.one_or_none()
one_or_none(found) ==
    IF found = {} THEN NoObj
    ELSE IF Cardinality(found) > 1 THEN MultipleResultsFound
    ELSE CHOOSE i \in found : TRUE
\* Query.one()
one(found) ==
    IF found = {} THEN NoResultFound
    ELSE IF Cardinality(found) > 1 THEN MultipleResultsFound
    ELSE CHOOSE i \in found : TRUE

\* lines 77-81: the entries of the stored params named in sqlalchemy_get_or_create
GetOrCreateParams(goc, stored) == Restrict(stored, Range(goc))

\* ------------------------------------------------------------------ _create
\* faulty variant: _get_or_create never entered
NeverGetOrCreate(goc) == FALSE
\* faulty variant: _get_or_create entered whatever the option holds
AlwaysGetOrCreate(goc) == TRUE
\* line 104: if cls._meta.sqlalchemy_get_or_create
UsesGetOrCreate(goc) == goc # <<>>

\* faulty variant: the session option never tested
NoSessionUntested(session) == FALSE
\* line 102: if session is None
NoSession(session) == session = None

\* lines 96-105 and 57-66: the engine calls _create with resolved kwargs; the
\* default object is constructed, the session option is checked and, with
\* sqlalchemy_get_or_create set, _get_or_create is entered and collects its
\* key fields
Create(g) ==
    /\ pc[g] = "resolving"
    /\ Turn(g)
    /\ \E k \in Resolutions(frame[g].params) :
        LET goc == meta.sqlalchemy_get_or_create
            d == NewId(inst)
            made == [inst EXCEPT ![d] = [vals |-> Construct(k), st |-> "transient"]]
        IN  /\ inst' = made
            /\ IF NoSession(meta.sqlalchemy_session)
               THEN /\ frame' = [frame EXCEPT ![g].kwargs = k, ![g].default = d, ![g].obj = d,
                                              ![g].exc = Exc("RuntimeError", "create", "none")]
                    /\ pc' = [pc EXCEPT ![g] = "raised"]
               ELSE IF ~UsesGetOrCreate(goc)
               THEN /\ frame' = [frame EXCEPT ![g].kwargs = k, ![g].default = d, ![g].obj = d]
                    /\ pc' = [pc EXCEPT ![g] = "check_add"]
               ELSE IF MissingFields(goc, k) # {}
               THEN /\ frame' = [frame EXCEPT ![g].kwargs = k, ![g].default = d, ![g].obj = d,
                                              ![g].exc = Exc("FactoryError", "get_or_create",
                                                             FirstMissing(goc, k))]
                    /\ pc' = [pc EXCEPT ![g] = "raised"]
               ELSE /\ frame' = [frame EXCEPT ![g].kwargs = k, ![g].default = d,
                                              ![g].obj = d,
                                              ![g].key_fields = KeyFields(goc, k)]
                    /\ pc' = [pc EXCEPT ![g] = "query"]
    /\ UNCHANGED <<meta, declared, unique, original_params, ops, stack, calls, threads, write_errors>>

\* lines 68-69: session.query(model_class).filter_by(*args, **key_fields).one_or_none()
Query(g) ==
    /\ pc[g] = "query"
    /\ Turn(g)
    /\ LET by == frame[g].key_fields
           table == Flush(inst)
           found == one_or_none(Matching(table, by))
       IN  /\ inst' = table
           /\ ops' = [ops EXCEPT ![g] = Append(@, QueryOp(by, TRUE))]
           /\ IF found = MultipleResultsFound
              THEN /\ frame' = [frame EXCEPT ![g].exc = Exc("MultipleResultsFound", "query", "none")]
                   /\ pc' = [pc EXCEPT ![g] = "raised"]
              ELSE IF found = NoObj
              THEN /\ frame' = [frame EXCEPT ![g].instance = NoObj]
                   /\ pc' = [pc EXCEPT ![g] = "insert"]
              ELSE /\ frame' = [frame EXCEPT ![g].instance = found, ![g].obj = found]
                   /\ pc' = [pc EXCEPT ![g] = "check_add"]
    /\ UNCHANGED <<meta, declared, unique, original_params, stack, calls, threads, write_errors>>

\* faulty variant: the try block reaching to the end of _create
CatchesEverywhere(at) == TRUE
\* lines 71-75: the try block that catches IntegrityError holds the
\* construct-and-add step of _get_or_create and nothing else
Catches(at) == at = "insert"

\* lines 71-75: instance = model_class(*args, **key_fields); session.add(instance),
\* with the IntegrityError of a conflicting insert caught
Insert(g) ==
    /\ pc[g] = "insert"
    /\ Turn(g)
    /\ LET n == NewId(inst)
           vals == Construct(frame[g].key_fields)
       IN  /\ ops' = [ops EXCEPT ![g] = Append(@, AddOp(n))]
           /\ IF Conflicts(inst, unique, vals)
              THEN /\ inst' = [inst EXCEPT ![n] = [vals |-> vals, st |-> "transient"]]
                   /\ IF Catches("insert")
                      THEN /\ frame' = [frame EXCEPT ![g].instance = n,
                                                     ![g].e = Exc("IntegrityError", "insert", "none")]
                           /\ pc' = [pc EXCEPT ![g] = "rollback"]
                      ELSE /\ frame' = [frame EXCEPT ![g].instance = n,
                                                     ![g].exc = Exc("IntegrityError", "insert", "none")]
                           /\ pc' = [pc EXCEPT ![g] = "raised"]
              ELSE /\ inst' = [inst EXCEPT ![n] = [vals |-> vals, st |-> "pending"]]
                   /\ frame' = [frame EXCEPT ![g].instance = n, ![g].obj = n]
                   /\ pc' = [pc EXCEPT ![g] = "check_add"]
    /\ UNCHANGED <<meta, declared, unique, original_params, stack, calls, threads, write_errors>>

\* line 76: session.rollback()
RollbackSession(g) ==
    /\ pc[g] = "rollback"
    /\ Turn(g)
    /\ inst' = Rollback(inst)
    /\ ops' = [ops EXCEPT ![g] = Append(@, PlainOp("rollback"))]
    /\ pc' = [pc EXCEPT ![g] = "read_params"]
    /\ UNCHANGED <<meta, declared, unique, original_params, frame, stack, calls, threads, write_errors>>

\* lines 77-82 and 90-91: derive the lookup from cls._original_params; with
\* none, re-raise
ReadParams(g) ==
    /\ pc[g] = "read_params"
    /\ Turn(g)
    /\ LET gp == GetOrCreateParams(meta.sqlalchemy_get_or_create, original_params)
       IN  IF gp # EmptyMap
           THEN /\ frame' = [frame EXCEPT ![g].get_or_create_params = gp]
                /\ pc' = [pc EXCEPT ![g] = "requery"]
           ELSE /\ frame' = [frame EXCEPT ![g].get_or_create_params = gp,
                                          ![g].exc = frame[g].e]
                /\ pc' = [pc EXCEPT ![g] = "raised"]
    /\ UNCHANGED <<meta, declared, unique, original_params, inst, ops, stack, calls, threads, write_errors>>

\* faulty variant: the insert attempted once more after a failed re-lookup
AfterNoResultRetry == "insert"
\* lines 87-88: except NoResultFound: raise e ends the call
AfterNoResult == "raised"

\* lines 83-89: session.query(model_class).filter_by(**get_or_create_params).one(),
\* with NoResultFound turned into the caught IntegrityError
Requery(g) ==
    /\ pc[g] = "requery"
    /\ Turn(g)
    /\ LET by == frame[g].get_or_create_params
           table == Flush(inst)
           found == one(Matching(table, by))
       IN  /\ inst' = table
           /\ ops' = [ops EXCEPT ![g] = Append(@, QueryOp(by, FALSE))]
           /\ IF found = NoResultFound
              THEN /\ frame' = [frame EXCEPT ![g].exc = frame[g].e]
                   /\ pc' = [pc EXCEPT ![g] = AfterNoResult]
              ELSE IF found = MultipleResultsFound
              THEN /\ frame' = [frame EXCEPT ![g].exc = Exc("MultipleResultsFound", "requery", "none")]
                   /\ pc' = [pc EXCEPT ![g] = "raised"]
              ELSE /\ frame' = [frame EXCEPT ![g].instance = found, ![g].obj = found]
                   /\ pc' = [pc EXCEPT ![g] = "check_add"]
    /\ UNCHANGED <<meta, declared, unique, original_params, stack, calls, threads, write_errors>>

\* faulty variant: the add of line 107 never made
NotInSessionNever(table, o) == FALSE
\* faulty variant: the test of line 106 inverted
NotInSessionInverted(table, o) == InSession(table, o)
\* line 106: obj not in session
NotInSession(table, o) == ~InSession(table, o)

\* lines 106-107: if obj not in session: session.add(obj)
AddIfNew(g) ==
    /\ pc[g] = "check_add"
    /\ Turn(g)
    /\ LET o == frame[g].obj
       IN  IF NotInSession(inst, o)
           THEN /\ ops' = [ops EXCEPT ![g] = Append(@, AddOp(o))]
                /\ IF Conflicts(inst, unique, inst[o].vals)
                   THEN /\ inst' = inst
                        /\ IF Catches("add")
                           THEN /\ frame' = [frame EXCEPT ![g].e = Exc("IntegrityError", "add", "none")]
                                /\ pc' = [pc EXCEPT ![g] = "rollback"]
                           ELSE /\ frame' = [frame EXCEPT ![g].exc = Exc("IntegrityError", "add", "none")]
                                /\ pc' = [pc EXCEPT ![g] = "raised"]
                   ELSE /\ inst' = [inst EXCEPT ![o].st = "pending"]
                        /\ frame' = frame
                        /\ pc' = [pc EXCEPT ![g] = "persist"]
           ELSE /\ UNCHANGED <<ops, inst, frame>>
                /\ pc' = [pc EXCEPT ![g] = "persist"]
    /\ UNCHANGED <<meta, declared, unique, original_params, stack, calls, threads, write_errors>>

\* faulty variant: flush and commit confused
PersistenceOpsSwapped(policy) ==
    IF policy = SESSION_PERSISTENCE_FLUSH THEN <<PlainOp("commit")>>
    ELSE IF policy = SESSION_PERSISTENCE_COMMIT THEN <<PlainOp("flush")>>
    ELSE <<>>
\* lines 108-111: the session call the persistence option asks for
PersistenceOps(policy) ==
    IF policy = SESSION_PERSISTENCE_FLUSH THEN <<PlainOp("flush")>>
    ELSE IF policy = SESSION_PERSISTENCE_COMMIT THEN <<PlainOp("commit")>>
    ELSE <<>>
Persisted(policy, table) ==
    IF policy = SESSION_PERSISTENCE_FLUSH THEN Flush(table)
    ELSE IF policy = SESSION_PERSISTENCE_COMMIT THEN Commit(table)
    ELSE table

\* what the database may answer to the write of the persistence option:
\* FALSE, the write is done; TRUE, it is rejected with an IntegrityError (a
\* constraint the session could not check at add)
WriteRejected(policy) ==
    IF write_errors /\ policy \in {SESSION_PERSISTENCE_FLUSH, SESSION_PERSISTENCE_COMMIT}
    THEN {FALSE, TRUE} ELSE {FALSE}

\* lines 108-112: apply the persistence option and return obj; a flush or
\* commit that raises is outside every try block
Persist(g) ==
    /\ pc[g] = "persist"
    /\ Turn(g)
    /\ ops' = [ops EXCEPT ![g] = @ \o PersistenceOps(meta.sqlalchemy_session_persistence)]
    /\ \E rejected \in WriteRejected(meta.sqlalchemy_session_persistence) :
        IF ~rejected
        THEN /\ inst' = Persisted(meta.sqlalchemy_session_persistence, inst)
             /\ frame' = frame
             /\ pc' = [pc EXCEPT ![g] = "done"]
        ELSE /\ inst' = inst
             /\ IF Catches("persist")
                THEN /\ frame' = [frame EXCEPT ![g].e = Exc("IntegrityError", "persist", "none")]
                     /\ pc' = [pc EXCEPT ![g] = "rollback"]
                ELSE /\ frame' = [frame EXCEPT ![g].exc = Exc("IntegrityError", "persist", "none")]
                     /\ pc' = [pc EXCEPT ![g] = "raised"]
    /\ UNCHANGED <<meta, declared, unique, original_params, stack, calls, threads, write_errors>>

\* the generation hands its result, or its exception, to its caller; an
\* exception of a nested generation ends the generation it is nested in
Return(g) ==
    /\ pc[g] \in Terminal
    /\ Turn(g)
    /\ LET rest == Without(stack, g)
           outer == rest[Len(rest)]
       IN  /\ stack' = rest
           /\ pc' = IF ~threads /\ rest # <<>> /\ pc[g] \in {"raised", "aborted"}
                    THEN [pc EXCEPT ![g] = "idle", ![outer] = "aborted"]
                    ELSE [pc EXCEPT ![g] = "idle"]
    /\ frame' = [frame EXCEPT ![g] = IdleFrame]
    /\ ops' = [ops EXCEPT ![g] = <<>>]
    /\ inst' = Collect(inst, UNION {Referenced(h) : h \in Gens \ {g}})
    /\ UNCHANGED <<meta, declared, unique, original_params, calls, threads, write_errors>>

\* the owner of the session commits it between two generations
CallerCommit ==
    /\ declared = "ok"
    /\ stack = <<>>
    /\ meta.sqlalchemy_session # None
    /\ inst # Commit(inst)
    /\ inst' = Commit(inst)
    /\ UNCHANGED <<meta, declared, unique, original_params, pc, frame, ops, stack, calls, threads, write_errors>>

\* ------------------------------------------------------------------ specs
ConfigInit ==
    /\ meta \in [sqlalchemy_get_or_create : GetOrCreateChoices,
                 sqlalchemy_session : SessionChoices,
                 sqlalchemy_session_persistence : PersistenceChoices]
    /\ declared = "no"
    /\ unique \in UniqueChoices
    /\ original_params = EmptyMap
    /\ inst = [i \in Ids |-> FreeInst]
    /\ pc = [g \in Gens |-> "idle"]
    /\ frame = [g \in Gens |-> IdleFrame]
    /\ ops = [g \in Gens |-> <<>>]
    /\ stack = <<>>
    /\ calls = 0

Init == ConfigInit /\ threads = FALSE /\ write_errors = FALSE
InitThreads == ConfigInit /\ threads = TRUE /\ write_errors = FALSE
InitWriteErrors == ConfigInit /\ threads = FALSE /\ write_errors = TRUE

Next ==
    \/ DeclareFactory
    \/ CallerCommit
    \/ \E g \in Gens :
        \/ Generate(g)
        \/ Create(g)
        \/ Query(g)
        \/ Insert(g)
        \/ RollbackSession(g)
        \/ ReadParams(g)
        \/ Requery(g)
        \/ AddIfNew(g)
        \/ Persist(g)
        \/ Return(g)

\* one thread: generations run one at a time, or nested in one another
Spec == Init /\ [][Next]_vars
\* generations of the same factory class in threads of their own
SpecThreads == InitThreads /\ [][Next]_vars
\* one thread, against a database that may reject a flush or a commit
SpecWriteErrors == InitWriteErrors /\ [][Next]_vars

\* ------------------------------------------------------------- properties
\* what a generation's log and locals say about its call
KeyNames == Range(meta.sqlalchemy_get_or_create)
Configured == meta.sqlalchemy_session # None
Count(g, name) == Cardinality({i \in DOMAIN ops[g] : ops[g][i].op = name})
Added(g) == {ops[g][i].obj : i \in {j \in DOMAIN ops[g] : ops[g][j].op = "add"}}
Queried(g) == Count(g, "query") >= 1
Ended(g) == pc[g] \in {"done", "raised"}
\* the insert attempt of g raised a constraint violation
InsertRaised(g) == frame[g].e.type = "IntegrityError"
\* the key fields among the raw params g itself was started with
OwnKeyParams(g) == Restrict(frame[g].params, KeyNames)
\* rows of the session, not added by g's own call, that carry the resolved
\* values of g's call in every key field
ExistingMatch(g) ==
    {i \in Ids : /\ inst[i].st \in Tracked
                 /\ i \notin Added(g)
                 /\ \A f \in KeyNames : inst[i].vals[f] = frame[g].kwargs[f]}

\* C1: of two creates of a factory with get-or-create fields that both miss
\* the first lookup and both attempt the insert, the one whose insert raises
\* the constraint violation returns the row the other inserted, provided its
\* own raw params name a key field (stated for the case that the other
\* call's row is still in the session when the call ends)
C1_SecondCreateRecovers ==
    \A g \in Gens : \A h \in Gens \ {g} :
        ( /\ InsertRaised(g)
          /\ Ended(g)
          /\ OwnKeyParams(g) # EmptyMap
          /\ Count(h, "add") = 1 /\ Count(h, "rollback") = 0
          /\ frame[h].instance \in Added(h)
          /\ InSession(inst, frame[h].instance) )
        => (pc[g] = "done" /\ frame[g].obj = frame[h].instance)

\* C2: the snapshot the conflict recovery of a generation reads is the
\* params this generation stored
C2_SnapshotIsOwn ==
    \A g \in Gens : pc[g] = "read_params" => original_params = frame[g].params

\* C3: with get-or-create fields, when a row with the resolved key values
\* exists, create hands back that row and issues no add
C3_ExistingReturned ==
    \A g \in Gens :
        (Queried(g) /\ ExistingMatch(g) # {})
        => /\ Count(g, "add") = 0
           /\ pc[g] \in {"check_add", "persist", "done"}
           /\ frame[g].obj \in ExistingMatch(g)
C3_Witness ==
    \E g \in Gens : pc[g] = "done" /\ Queried(g) /\ ExistingMatch(g) # {}
                    /\ frame[g].obj \in ExistingMatch(g)

\* C4: with get-or-create fields, when no row has the resolved key values,
\* create issues exactly one add, of a new instance whose key fields carry the
\* resolved values; unless that add raises, the instance is in the session
\* and is what create returns
C4_MissInsertsKeyFields ==
    \A g \in Gens :
        (Queried(g) /\ ExistingMatch(g) = {} /\ Ended(g))
        => /\ Count(g, "add") = 1
           /\ \A n \in Added(g) :
                /\ n # frame[g].default
                /\ \A f \in KeyNames : inst[n].vals[f] = frame[g].kwargs[f]
                /\ ~InsertRaised(g)
                    => pc[g] = "done" /\ frame[g].obj = n /\ InSession(inst, n)
C4_Witness ==
    \E g \in Gens : /\ pc[g] = "done" /\ Queried(g) /\ ExistingMatch(g) = {}
                    /\ ~InsertRaised(g)
                    /\ Cardinality(KeyNames) = 2
                    /\ frame[g].obj \in Added(g)

\* C5: without get-or-create fields create issues no query: it adds the
\* instance built from the resolved kwargs, whatever the table holds
C5_PlainInsert ==
    \A g \in Gens :
        (Configured /\ meta.sqlalchemy_get_or_create = <<>>)
        => /\ Count(g, "query") = 0
           /\ Ended(g)
                => /\ Count(g, "add") = 1
                   /\ ops[g][1] = AddOp(frame[g].default)
                   /\ inst[frame[g].default].vals = Construct(frame[g].kwargs)
                   /\ pc[g] = "done" => frame[g].obj = frame[g].default
C5_Witness ==
    \E g \in Gens : /\ pc[g] = "done" /\ meta.sqlalchemy_get_or_create = <<>>
                    /\ \E i \in Rows(inst) : i # frame[g].obj
                    /\ InSession(inst, frame[g].obj)

\* C6: after a constraint violation of the insert attempt, a create that
\* ends in an error ends in that constraint violation
C6_OriginalViolationPropagates ==
    \A g \in Gens :
        (InsertRaised(g) /\ pc[g] = "raised") => frame[g].exc = frame[g].e

\* C7: after a constraint violation of the insert attempt of a call whose own
\* raw params name no key field, the session is rolled back, no second query
\* is issued and the violation reaches the caller
C7_NoKeyParamsReraises ==
    \A g \in Gens :
        ( /\ InsertRaised(g)
          /\ OwnKeyParams(g) = EmptyMap
          /\ pc[g] \notin {"rollback", "read_params"} )
        => /\ pc[g] = "raised"
           /\ frame[g].exc = frame[g].e
           /\ Count(g, "rollback") = 1
           /\ Count(g, "query") = 1

\* C8: a get-or-create field absent from the resolved kwargs makes create
\* fail with a FactoryError naming such a field, before any session call
C8_MissingKeyField ==
    \A g \in Gens :
        ( /\ Configured
          /\ meta.sqlalchemy_get_or_create # <<>>
          /\ pc[g] \notin {"idle", "resolving", "aborted"}
          /\ \E f \in KeyNames : f \notin DOMAIN frame[g].kwargs )
        => /\ pc[g] = "raised"
           /\ frame[g].exc.type = "FactoryError"
           /\ frame[g].exc.field \in KeyNames \ DOMAIN frame[g].kwargs
           /\ ops[g] = <<>>
C8_Witness ==
    \E g \in Gens : /\ pc[g] = "raised" /\ frame[g].exc.type = "FactoryError"
                    /\ frame[g].exc.field = "b"
                    /\ "a" \in DOMAIN frame[g].kwargs
                    /\ Rows(inst) # {}

\* C9: a create that returns has issued, as its last session call, one flush
\* and no commit under the flush policy, one commit and no flush under the
\* commit policy, and neither without a policy
C9_PersistencePolicy ==
    \A g \in Gens :
        pc[g] = "done" =>
            LET policy == meta.sqlalchemy_session_persistence
                n == Len(ops[g])
            IN  /\ policy = SESSION_PERSISTENCE_FLUSH
                    => /\ Count(g, "flush") = 1 /\ Count(g, "commit") = 0
                       /\ ops[g][n].op = "flush"
                /\ policy = SESSION_PERSISTENCE_COMMIT
                    => /\ Count(g, "commit") = 1 /\ Count(g, "flush") = 0
                       /\ ops[g][n].op = "commit"
                /\ policy = None
                    => Count(g, "flush") = 0 /\ Count(g, "commit") = 0
C9_Witness ==
    \E g \in Gens : /\ pc[g] = "done" /\ InsertRaised(g)
                    /\ meta.sqlalchemy_session_persistence = SESSION_PERSISTENCE_FLUSH
                    /\ Count(g, "flush") = 1

\* C10: the instance a create returns is in the session when it returns
C10_ReturnedIsTracked ==
    \A g \in Gens : pc[g] = "done" => InSession(inst, frame[g].obj)
C10_Witness ==
    \E g \in Gens : /\ pc[g] = "done" /\ InsertRaised(g)
                    /\ InSession(inst, frame[g].obj)
                    /\ frame[g].obj \notin Added(g)

\* C11: a sqlalchemy_session_persistence value outside the valid set makes the
\* class declaration fail with a TypeError, a value inside it never does, and
\* no generation is ever in progress under a value outside the set
C11_InvalidPolicyRejected ==
    LET policy == meta.sqlalchemy_session_persistence
    IN  /\ declared # "no"
            => (declared = "TypeError" <=> policy \notin VALID_SESSION_PERSISTENCE_TYPES)
        /\ policy \notin VALID_SESSION_PERSISTENCE_TYPES
            => /\ calls = 0
               /\ \A g \in Gens : pc[g] = "idle" /\ ops[g] = <<>>
C11_Witness ==
    /\ declared = "TypeError"
    /\ meta.sqlalchemy_session_persistence = "savepoint"
    /\ meta.sqlalchemy_session # None

\* C12: without a session, a create fails with a RuntimeError before any
\* session call, whatever the get-or-create fields, the persistence option
\* and the kwargs are, and nothing is ever attached to a session
C12_NoSessionFails ==
    ~Configured
    => /\ Rows(inst) = {}
       /\ \A g \in Gens :
            /\ ops[g] = <<>>
            /\ pc[g] \in {"idle", "resolving", "raised", "aborted"}
            /\ pc[g] = "raised"
                => frame[g].exc = Exc("RuntimeError", "create", "none")
C12_Witness ==
    \E g \in Gens : /\ ~Configured
                    /\ pc[g] = "raised" /\ frame[g].exc.type = "RuntimeError"
                    /\ meta.sqlalchemy_get_or_create = <<"a", "b">>
                    /\ meta.sqlalchemy_session_persistence = SESSION_PERSISTENCE_COMMIT
                    /\ DOMAIN frame[g].kwargs = {"a"}

\* positions inside _create, and the steps a create can still take from each
InCreate == {"query", "insert", "rollback", "read_params", "requery", "check_add", "persist"}
StepsLeft(at) ==
    CASE at = "query" -> 7
      [] at = "insert" -> 6
      [] at = "rollback" -> 5
      [] at = "read_params" -> 4
      [] at = "requery" -> 3
      [] at = "check_add" -> 2
      [] at = "persist" -> 1
      [] OTHER -> 0
CreateStep(g) ==
    \/ Query(g) \/ Insert(g) \/ RollbackSession(g) \/ ReadParams(g)
    \/ Requery(g) \/ AddIfNew(g) \/ Persist(g)

\* C13: a create in progress can always take its next step, every step
\* brings it closer to its end, where it has returned or raised, and its log
\* never holds more than two queries, one rollback, and one flush or commit
C13_CreateTerminates ==
    /\ [](\A g \in Gens :
            /\ pc[g] \in InCreate => ENABLED CreateStep(g)
            /\ Count(g, "query") <= 2
            /\ Count(g, "rollback") <= 1
            /\ Count(g, "flush") + Count(g, "commit") <= 1)
    /\ [][\A g \in Gens :
            (pc[g] \in InCreate /\ pc'[g] # pc[g])
            => /\ pc'[g] \in InCreate \cup {"done", "raised"}
               /\ StepsLeft(pc'[g]) < StepsLeft(pc[g])]_vars
C13_Witness ==
    \E g \in Gens : /\ pc[g] = "done"
                    /\ Count(g, "query") = 2 /\ Count(g, "rollback") = 1
                    /\ Count(g, "commit") = 1

\* places of a kind of session call in the log of g
Index(g, name) == {i \in DOMAIN ops[g] : ops[g][i].op = name}
Writes(g) == Index(g, "flush") \cup Index(g, "commit")
\* the order of the session calls of one create, up to the way an exception
\* ends it
OpsInOrder(g) ==
    \* the first query comes before any add
    /\ (meta.sqlalchemy_get_or_create # <<>> /\ ops[g] # <<>>) => ops[g][1].op = "query"
    \* a rollback follows the add of the insert attempt that raised
    /\ \A i \in Index(g, "rollback") :
            /\ i > 1 /\ ops[g][i - 1].op = "add"
            /\ frame[g].e = Exc("IntegrityError", "insert", "none")
            /\ ~InSession(inst, ops[g][i - 1].obj)
    \* the re-lookup comes after the rollback
    /\ \A k \in Index(g, "query") \ {1} : \E i \in Index(g, "rollback") : i < k
    \* the flush or commit is the last call, issued with obj in the session
    /\ \A i \in Writes(g) : i = Len(ops[g]) /\ InSession(inst, frame[g].obj)
    /\ pc[g] = "persist" => InSession(inst, frame[g].obj)

\* C14 as stated: the session calls of a create come in order and a create
\* that ends in an exception has issued no flush and no commit
C14_OpsInOrder ==
    \A g \in Gens : /\ OpsInOrder(g)
                    /\ pc[g] = "raised" => Writes(g) = {}
\* C14, amended: the session calls of a create come in order and a create
\* that ends in an exception has issued no flush and no commit, unless the
\* exception is the one that flush or commit raised
C14_OpsInOrderUnlessWriteRaised ==
    \A g \in Gens : /\ OpsInOrder(g)
                    /\ (pc[g] = "raised" /\ frame[g].exc.at # "persist") => Writes(g) = {}
                    /\ (pc[g] = "raised" /\ frame[g].exc.at = "persist")
                        => Cardinality(Writes(g)) = 1
C14_Witness ==
    \E g \in Gens : /\ pc[g] = "raised" /\ frame[g].exc.at = "persist"
                    /\ Count(g, "rollback") = 1 /\ Count(g, "query") = 2
                    /\ Count(g, "flush") = 1

\* C15: the re-lookup of a create filters by the key fields among the raw
\* params this create was called with, with the caller's values, and by no
\* positional argument; the row it finds, returned by the create, carries
\* those values
C15_ReLookupByOwnParams ==
    \A g \in Gens : \A k \in Index(g, "query") \ {1} :
        /\ ops[g][k].by = OwnKeyParams(g)
        /\ ~ops[g][k].args
        /\ pc[g] = "done"
            => \A f \in DOMAIN OwnKeyParams(g) :
                    inst[frame[g].obj].vals[f] = frame[g].params[f]

\* C16: with get-or-create fields, the instance _create constructs first from
\* the resolved kwargs is never added to the session, never in it, and never
\* what the create goes on with or returns
C16_DefaultDiscarded ==
    \A g \in Gens :
        (meta.sqlalchemy_get_or_create # <<>> /\ frame[g].default # NoObj)
        => /\ frame[g].default \notin Added(g)
           /\ ~InSession(inst, frame[g].default)
           /\ pc[g] \in {"check_add", "persist", "done"}
                => frame[g].obj # frame[g].default
C16_Witness ==
    \E g \in Gens : /\ pc[g] = "done"
                    /\ meta.sqlalchemy_get_or_create # <<>>
                    /\ inst[frame[g].default].st = "transient"
                    /\ frame[g].obj \in Added(g)
                    /\ inst[frame[g].default].vals # inst[frame[g].obj].vals

\* C17: with get-or-create fields and no row with the key values, the
\* instance a create inserts and returns carries every resolved kwarg, as
\* the instance of a plain create does (C5): the key fields and the others
C17_InsertedCarriesAllKwargs ==
    \A g \in Gens :
        ( /\ meta.sqlalchemy_get_or_create # <<>>
          /\ pc[g] = "done"
          /\ frame[g].obj \in Added(g) )
        => inst[frame[g].obj].vals = Construct(frame[g].kwargs)

\* C18: no step takes an instance out of the session, and the only instance a
\* step puts into it is the one a create goes on with and returns
C18_OnlyOwnResultAttached ==
    [][ /\ Rows(inst) \subseteq Rows(inst')
        /\ Rows(inst') \ Rows(inst) \subseteq {frame'[g].obj : g \in Gens} ]_vars

\* C19: the only constraint violation a create catches is the one of the
\* insert attempt of _get_or_create; the one a flush or commit raises ends
\* the create with that violation, the flush or commit being the last
\* session call: no rollback and no lookup follows it
C19_WriteViolationUncaught ==
    \A g \in Gens :
        /\ frame[g].e.at \in {"none", "insert"}
        /\ frame[g].exc.at \in {"add", "persist"}
            => /\ pc[g] = "raised"
               /\ frame[g].exc.type = "IntegrityError"
               /\ ops[g][Len(ops[g])].op \in
                    (IF frame[g].exc.at = "add" THEN {"add"} ELSE {"flush", "commit"})
        /\ \A i \in Writes(g) :
               \A j \in Index(g, "rollback") \cup Index(g, "query") : j < i
        /\ pc[g] \in {"rollback", "read_params", "requery"} => Writes(g) = {}
C19_Witness ==
    \E g \in Gens : /\ pc[g] = "raised" /\ frame[g].exc.at = "persist"
                    /\ meta.sqlalchemy_get_or_create # <<>>
                    /\ ExistingMatch(g) # {}
                    /\ frame[g].obj \in ExistingMatch(g)
                    /\ Count(g, "rollback") = 0 /\ Count(g, "query") = 1
====
